---- MODULE Spec2Model ----
(***************************************************************************)
(* Event delivery pipeline of the Identro SDK: MemoryQueueStorage          *)
(* (storage.ts), withRetry / isRetryableError (utils/retry.ts) and         *)
(* EventBatcher (batcher.ts) as wired by IdentroClient (client.ts).        *)
(*                                                                         *)
(* An event is represented by its event_id (a fresh number per event, as   *)
(* crypto.randomUUID() is fresh per event).  Every async method is split   *)
(* at its await points: one action per run-to-completion segment.          *)
(***************************************************************************)
EXTENDS Integers, Sequences, FiniteSets, TLC

\* ---------------------------------------------------------------- bounds
MaxEvents == 4
Capacity == 3
BatchSize == 2
MaxRetries == 2
MaxCycles == 2
MaxPendingAdds == 1
MaxRetryBudget == 6

\* ------------------------------------------------------------ constants
\* client.ts: retryDelay: config.retryDelay || 1000
DefaultRetryDelay == 1000

\* withRetry: const { maxRetries, retryDelay, maxDelay = 30000, onRetry }
DefaultMaxDelay == 30000

\* client.ts: batchSize: config.batchSize || 100
DefaultBatchSize == 100

\* client.ts: flushInterval: config.flushInterval || 1000
DefaultFlushInterval == 1000

\* client.ts: maxRetries: config.maxRetries || 3
DefaultMaxRetries == 3

\* ------------------------------------------------------- general helpers
Range(s) ==
  {s[i] : i \in 1..Len(s)}

Min(a, b) ==
  IF a <= b THEN a ELSE b

Slots ==
  1..MaxCycles

\* ------------------------------------------------------------- errors
\* A thrown value as isRetryableError sees it: its code, status and name
\* properties; "" and NoStatus stand for an undefined property.
NoStatus == 0

HttpError(st) ==
  [code |-> "", status |-> st, name |-> "Error"]

NoError ==
  [code |-> "", status |-> NoStatus, name |-> ""]

\* Failures of the Transport call of sendBatch: a non-ok HTTP response, thrown
\* with its status attached; one permanent and one transient status.
TransportErrors ==
  {HttpError(400), HttpError(503)}

\* Faulty variant of isRetryableError: every HTTP error status is retryable.
isRetryableError_anyHttpError(error) ==
  \/ error.code \in {"ECONNREFUSED", "ETIMEDOUT"}
  \/ error.status >= 400
  \/ error.name \in {"NetworkError", "TimeoutError"}

isRetryableError(error) ==
  \/ error.code \in {"ECONNREFUSED", "ETIMEDOUT"}
  \/ error.status = 429
  \/ (error.status >= 500 /\ error.status < 600)
  \/ error.name \in {"NetworkError", "TimeoutError"}

\* Classifier harness: isRetryableError has not been called.
NoClassified ==
  [called |-> FALSE, error |-> NoError, retryable |-> FALSE]

\* ------------------------------------------------- MemoryQueueStorage
\* Faulty variant of push: no eviction at capacity.
push_noEvict(q, e) ==
  Append(q, e)

\* Faulty variant of push: the new event goes to the front of the queue.
push_front(q, e) ==
  IF Len(q) >= Capacity
    THEN <<e>> \o Tail(q)
    ELSE <<e>> \o q

push(q, e) ==
  IF Len(q) >= Capacity
    THEN Append(Tail(q), e)
    ELSE Append(q, e)

shift(q) ==
  IF q = << >> THEN q ELSE Tail(q)

\* Faulty variant of peek: the newest events instead of the oldest.
peek_newest(q, count) ==
  SubSeq(q, Len(q) - Min(count, Len(q)) + 1, Len(q))

peek(q, count) ==
  SubSeq(q, 1, Min(count, Len(q)))

\* Faulty variant of remove: only a named event at the head is removed.
remove_head(q, eventIds) ==
  IF q # << >> /\ Head(q) \in eventIds THEN Tail(q) ELSE q

\* Faulty variant of remove: drops as many of the oldest events as ids given.
remove_oldest(q, eventIds) ==
  SubSeq(q, Min(Cardinality(eventIds), Len(q)) + 1, Len(q))

\* Faulty variant of remove: the filter keeps the named events.
remove_inverted(q, eventIds) ==
  SelectSeq(q, LAMBDA e : e \in eventIds)

\* Faulty variant of remove: the queue is emptied once a named event is found.
remove_reset(q, eventIds) ==
  IF Range(q) \cap eventIds = {} THEN q ELSE << >>

remove(q, eventIds) ==
  SelectSeq(q, LAMBDA e : e \notin eventIds)

size(q) ==
  Len(q)

clear(q) ==
  << >>

\* ------------------------------------------------------------- state
VARIABLES
  queue,         \* MemoryQueueStorage.queue: event ids, oldest first
  nextId,        \* the event_id the next created event gets
  onError,       \* BatcherConfig.onError is set (client: throwOnError false)
  isProcessing,  \* EventBatcher.isProcessing
  isStopped,     \* EventBatcher.isStopped
  flushTimer,    \* EventBatcher.flushTimer is set
  adds,          \* add() calls suspended at an await, in call order
  cycles,        \* flush() calls that passed the guard, one record per slot
  stopPc,        \* position of the stop() call: "none", "awaiting", "returned"
  stopSlot,      \* the cycle stop() awaits, 0 when its flush() returned at once
  stopN,         \* size of the queue when stop() was last called
  restopped,     \* the stop() call in progress found the batcher stopped
  addOutcome,    \* how the last add() call began: "none", "queued", "stopped"
  flushResult,   \* what the last flush() call did: "none", "started", "blocked"
  delivered,     \* event ids some success response accepted
  kept,          \* events the last cycle left queued after a retryable failure
  allOk,         \* every Transport response so far accepted its whole batch
  flushCaller,   \* the application's client.flush() call and how it settled
  recordOutcome, \* how the last client.recordEvent() call ended
  pushed,        \* storage harness: ids pushed since construction or clear()
  touched,       \* storage harness: shift() or remove() ran since then
  lastPeek,      \* storage harness: the peek() just made and what it returned
  lastRemove,    \* storage harness: the ids of the remove() just made
  retry,         \* retry harness: one withRetry call, its options and history
  facade,        \* facade harness: one IdentroClient, its config and last call
  classified     \* classifier harness: the last isRetryableError call

vars ==
  <<queue, nextId, onError, isProcessing, isStopped, flushTimer, adds, cycles,
    stopPc, stopSlot, stopN, restopped, addOutcome, flushResult, delivered, kept, allOk,
    flushCaller, recordOutcome, pushed, touched, lastPeek, lastRemove, retry, facade,
    classified>>

\* The harness variables are written by the actions of SpecStorage, which
\* drive a MemoryQueueStorage directly, of SpecRetry, which drive one
\* withRetry call, and of SpecFacade, which construct an IdentroClient and
\* call its record methods; no batcher action touches them.
harness ==
  <<pushed, touched, lastPeek, lastRemove, retry, facade, classified>>

\* What the storage harness leaves alone: the batcher and its bookkeeping.
batcher ==
  <<onError, isProcessing, isStopped, flushTimer, adds, cycles, stopPc,
    stopSlot, stopN, restopped, addOutcome, flushResult, delivered, kept, allOk,
    flushCaller, recordOutcome>>

IdleCycle ==
  [pc |-> "idle", batch |-> << >>, attempt |-> 0,
   calls |-> 0, retried |-> 0, successes |-> 0, lastError |-> NoError,
   outcome |-> "none", named |-> {}, observed |-> << >>, raised |-> FALSE,
   startedBy |-> "", afterStop |-> FALSE, peekedFrom |-> << >>,
   uuids |-> 0, body |-> [batch_id |-> 0, events |-> << >>], sent |-> << >>]

\* No client.flush() call is under way.  pc is "none", "awaiting" (the
\* promise is pending), or "resolved" / "rejected" (it has settled and the
\* caller is about to resume); slot is the cycle the call awaits; seen holds
\* the events queued when it was called and left those of them still queued
\* when its promise settled.
NoFlushCaller ==
  [pc |-> "none", slot |-> 0, seen |-> {}, left |-> {}]

\* IdentroClient.config.throwOnError: the constructor hands the batcher an
\* error observer exactly when it is false.
throwOnError ==
  ~onError

Active ==
  {s \in Slots : cycles[s].pc # "idle"}

FreeSlot ==
  CHOOSE s \in Slots : cycles[s].pc = "idle" /\ \A t \in 1..(s - 1) : cycles[t].pc # "idle"

\* The promise of the flush() call made by stop() has settled.
StopFlushSettled ==
  IF stopSlot = 0 THEN TRUE ELSE cycles[stopSlot].pc = "idle"

\* A continuation waiting on an already settled promise (a microtask) is
\* pending: timers and network completions run only when there is none.
MicrotaskPending ==
  \/ adds # << >>
  \/ \E s \in Slots : cycles[s].pc \in {"peeked", "release"}
  \/ stopPc = "awaiting" /\ StopFlushSettled
  \/ flushCaller.pc \in {"resolved", "rejected"}

\* Storage harness: the last storage call was not a peek(), not a remove().
NoPeek ==
  [count |-> 0, events |-> << >>, turn |-> 0]

NoRemove ==
  [ids |-> {}, turn |-> 0]

\* RetryOptions.maxDelay: left undefined, or given in milliseconds.
NoMaxDelay ==
  [given |-> FALSE, ms |-> 0]

\* withRetry has not been called: no options yet, nothing recorded.  pc is
\* "idle", "calling" (fn is running), "waiting" (the backoff timer is
\* running), "returned" or "thrown".
IdleRetry ==
  [pc |-> "idle", maxRetries |-> 0, retryDelay |-> 0, maxDelay |-> NoMaxDelay,
   onRetry |-> FALSE, attempt |-> 0, calls |-> 0, waits |-> << >>,
   failures |-> << >>, retried |-> << >>, lastError |-> NoError,
   result |-> "none", thrown |-> NoError]

\* ------------------------------------------------------ JavaScript values
\* A value as `typeof` and property access see it: its type, and its content
\* as a string, a number, or an options object with task_id and latency_ms.
JsUndefined ==
  [type |-> "undefined", str |-> "", num |-> 0]

JsString(s) ==
  [type |-> "string", str |-> s, num |-> 0]

JsNumber(n) ==
  [type |-> "number", str |-> "", num |-> n]

\* An options object { task_id, latency_ms, ... }.
JsOptions(taskId, latencyMs) ==
  [type |-> "object", str |-> taskId, num |-> latencyMs]

\* An optional numeric field of IdentroConfig: left out, or given.
Absent ==
  [given |-> FALSE, n |-> 0]

Given(n) ==
  [given |-> TRUE, n |-> n]

\* An optional boolean of a config object: absent, or given with value b.
AbsentFlag ==
  [given |-> FALSE, b |-> FALSE]

GivenFlag(b) ==
  [given |-> TRUE, b |-> b]

\* An updateConfig argument that names no property.
NoUpdates ==
  [batchSize |-> Absent, flushInterval |-> Absent, maxRetries |-> Absent,
   retryDelay |-> Absent, throwOnError |-> AbsentFlag]

\* No IdentroClient has been constructed.  pc is "none", "constructed",
\* "failed" (the constructor threw) or "updated" (updateConfig was called);
\* input is the config passed in, config the tunables of this.config,
\* batcher the BatcherConfig object the EventBatcher was created with,
\* updates the argument of updateConfig, call the arguments of the last
\* record call and recorded the options objects it handed to recordEvent
\* (both kept until updateConfig is called).
NoFacade ==
  [pc |-> "none",
   input |-> [apiKey |-> FALSE, batchSize |-> Absent, flushInterval |-> Absent,
              maxRetries |-> Absent, retryDelay |-> Absent,
              throwOnError |-> AbsentFlag],
   config |-> [batchSize |-> 0, flushInterval |-> 0, maxRetries |-> 0,
               retryDelay |-> 0, throwOnError |-> FALSE],
   batcher |-> [batchSize |-> 0, flushInterval |-> 0, maxRetries |-> 0,
                retryDelay |-> 0, onError |-> FALSE],
   updates |-> NoUpdates,
   call |-> <<JsUndefined, JsUndefined, JsUndefined>>,
   recorded |-> << >>]

\* ------------------------------------------------------------- Init
\* new IdentroClient(config): createQueueStorage() gives an empty queue, the
\* EventBatcher constructor starts the auto-flush timer, and onError is set
\* unless throwOnError was asked for.
Init ==
  /\ queue = << >>
  /\ nextId = 1
  /\ onError \in BOOLEAN
  /\ isProcessing = FALSE
  /\ isStopped = FALSE
  /\ flushTimer = TRUE
  /\ adds = << >>
  /\ cycles = [s \in Slots |-> IdleCycle]
  /\ stopPc = "none"
  /\ stopSlot = 0
  /\ stopN = 0
  /\ restopped = FALSE
  /\ addOutcome = "none"
  /\ flushResult = "none"
  /\ delivered = {}
  /\ kept = {}
  /\ allOk = TRUE
  /\ flushCaller = NoFlushCaller
  /\ recordOutcome = "none"
  /\ pushed = << >>
  /\ touched = FALSE
  /\ lastPeek = NoPeek
  /\ lastRemove = NoRemove
  /\ retry = IdleRetry
  /\ facade = NoFacade
  /\ classified = NoClassified

\* ------------------------------------------------------ EventBatcher.flush
\* Faulty variant of the flush guard: isProcessing is not consulted.
flushBlocked_ignoresProcessing(processing, stopped) ==
  stopped

\* Faulty variant of the flush guard: isStopped is not consulted.
flushBlocked_ignoresStopped(processing, stopped) ==
  processing

\* flush(), line 101: if (this.isProcessing || this.isStopped) return;
flushBlocked(processing, stopped) ==
  processing \/ stopped

\* The synchronous part of flush(): the guard, isProcessing = true, and the
\* call of processBatch up to its first await, where storage.peek has already
\* taken its slice.  `stopped` is the value of isStopped at the call and
\* `caller` the code that made it ("flush", "timer", "add" or "stop"), which
\* the cycle remembers until processBatch resumes.  The cycle also notes
\* whether the batcher was stopped at the call and the queue peek sliced.
flush(stopped, caller) ==
  IF flushBlocked(isProcessing, stopped)
    THEN /\ flushResult' = "blocked"
         /\ UNCHANGED <<isProcessing, cycles>>
    ELSE /\ \E s \in Slots : cycles[s].pc = "idle"
         /\ flushResult' = "started"
         /\ isProcessing' = TRUE
         /\ cycles' = [cycles EXCEPT ![FreeSlot] =
                         [IdleCycle EXCEPT !.pc = "peeked",
                                           !.batch = peek(queue, BatchSize),
                                           !.startedBy = caller,
                                           !.afterStop = stopped,
                                           !.peekedFrom = queue]]

\* client.flush() called by the application, which awaits it (one such call
\* at a time).  A flush() that returns at the guard resolves with nothing
\* done; otherwise the call settles when its cycle ends, in FlushFinally.
FlushCall ==
  /\ flushCaller.pc = "none"
  /\ flush(isStopped, "flush")
  /\ flushCaller' =
       IF flushBlocked(isProcessing, isStopped)
         THEN [pc |-> "resolved", slot |-> 0, seen |-> {}, left |-> Range(queue)]
         ELSE [pc |-> "awaiting", slot |-> FreeSlot, seen |-> Range(queue),
               left |-> {}]
  /\ UNCHANGED <<harness, recordOutcome, queue, nextId, onError, isStopped, flushTimer, adds, stopPc,
                 stopSlot, stopN, restopped, addOutcome, delivered, kept, allOk>>

\* The application resumes after `await client.flush()`, with the promise
\* resolved or with the error it was rejected with.
FlushReturn ==
  /\ flushCaller.pc \in {"resolved", "rejected"}
  /\ flushCaller' = NoFlushCaller
  /\ UNCHANGED <<harness, recordOutcome, queue, nextId, onError, isProcessing, isStopped,
                 flushTimer, adds, cycles, stopPc, stopSlot, stopN, restopped, addOutcome,
                 flushResult, delivered, kept, allOk>>

\* startAutoFlush: the interval callback calls flush().
TimerTick ==
  /\ flushTimer
  /\ ~MicrotaskPending
  /\ flush(isStopped, "timer")
  /\ UNCHANGED <<harness, flushCaller, recordOutcome, queue, nextId, onError, isStopped, flushTimer, adds, stopPc,
                 stopSlot, stopN, restopped, addOutcome, delivered, kept, allOk>>

\* ------------------------------------------------------- EventBatcher.add
\* Faulty variant of the add guard: the stopped flag is not consulted.
addRejects_never(stopped) ==
  FALSE

\* add(), line 86: if (this.isStopped) throw
addRejects(stopped) ==
  stopped

\* Faulty variant of recordEventRethrows: the catch block always rethrows.
recordEventRethrows_always(strict) ==
  TRUE

\* recordEvent, catch block: if (this.config.throwOnError) throw error;
recordEventRethrows(strict) ==
  strict

\* client.recordEvent(): the event gets a fresh event_id and batcher.add is
\* called and awaited inside try/catch.  add(event) runs up to
\* `await storage.push(event)`, the push itself included; when add throws,
\* recordEvent's catch block logs the error and rethrows it or not.
AddCall ==
  /\ nextId <= MaxEvents
  /\ nextId' = nextId + 1
  /\ IF addRejects(isStopped)
       THEN /\ addOutcome' = "stopped"
            /\ recordOutcome' = IF recordEventRethrows(throwOnError)
                                  THEN "raised" ELSE "swallowed"
            /\ UNCHANGED <<queue, adds>>
       ELSE /\ Len(adds) < MaxPendingAdds
            /\ addOutcome' = "queued"
            /\ recordOutcome' = "queued"
            /\ queue' = push(queue, nextId)
            /\ adds' = Append(adds, [pc |-> "pushed", size |-> 0])
  /\ UNCHANGED <<harness, flushCaller, onError, isProcessing, isStopped, flushTimer, cycles, stopPc,
                 stopSlot, stopN, restopped, flushResult, delivered, kept, allOk>>

\* add() resumed after the push: logger.debug, then storage.size() is called
\* and awaited.
AddSize(i) ==
  /\ i \in 1..Len(adds)
  /\ adds[i].pc = "pushed"
  /\ adds' = [adds EXCEPT ![i] = [pc |-> "sized", size |-> size(queue)]]
  /\ UNCHANGED <<harness, flushCaller, recordOutcome, queue, nextId, onError, isProcessing, isStopped, flushTimer,
                 cycles, stopPc, stopSlot, stopN, restopped, addOutcome, flushResult, delivered,
                 kept, allOk>>

\* Faulty variant of sizeTriggers: a full batch does not trigger yet.
sizeTriggers_above(n) ==
  n > BatchSize

\* add(), line 95: if (size >= this.config.batchSize)
sizeTriggers(n) ==
  n >= BatchSize

\* add() resumed with the size: if (size >= batchSize) this.flush(), not
\* awaited; add() returns.
AddTrigger(i) ==
  /\ i \in 1..Len(adds)
  /\ adds[i].pc = "sized"
  /\ adds' = SubSeq(adds, 1, i - 1) \o SubSeq(adds, i + 1, Len(adds))
  /\ IF sizeTriggers(adds[i].size)
       THEN flush(isStopped, "add")
       ELSE UNCHANGED <<isProcessing, cycles, flushResult>>
  /\ UNCHANGED <<harness, flushCaller, recordOutcome, queue, nextId, onError, isStopped, flushTimer, stopPc, stopSlot, stopN, restopped,
                 addOutcome, delivered, kept, allOk>>

\* ------------------------------------------------------ EventBatcher.stop
\* Faulty variant of stopFlag: stop() flips the flag.
stopFlag_toggle(wasStopped) ==
  ~wasStopped

\* stop(), line 112: this.isStopped = true, whatever it was.
stopFlag(wasStopped) ==
  TRUE

\* stop() up to `await this.flush()`.
StopCall ==
  /\ stopPc # "awaiting"
  /\ isStopped' = stopFlag(isStopped)
  /\ flushTimer' = FALSE
  /\ stopN' = size(queue)
  /\ restopped' = isStopped
  /\ stopPc' = "awaiting"
  /\ flush(stopFlag(isStopped), "stop")
  /\ stopSlot' = IF flushBlocked(isProcessing, stopFlag(isStopped)) THEN 0 ELSE FreeSlot
  /\ UNCHANGED <<harness, flushCaller, recordOutcome, queue, nextId, onError, adds, addOutcome, delivered, kept, allOk>>

\* stop() resumed once the promise of its flush() call has settled.
StopReturn ==
  /\ stopPc = "awaiting"
  /\ StopFlushSettled
  /\ stopPc' = "returned"
  /\ restopped' = FALSE
  /\ UNCHANGED <<harness, flushCaller, recordOutcome, queue, nextId, onError, isProcessing,
                 isStopped, flushTimer, adds, cycles, stopSlot, stopN, addOutcome,
                 flushResult, delivered, kept, allOk>>

\* ------------------------------------------------------------ withRetry
\* Faulty variant of lastAttempt: one attempt more than allowed.
lastAttempt_oneMore(attempt, maxRetries) ==
  attempt = maxRetries + 1

\* withRetry, `if (attempt === maxRetries) throw lastError`: the failure of
\* attempt number maxRetries (counted from 0) is final.
lastAttempt(attempt, maxRetries) ==
  attempt = maxRetries

\* The same test in the withRetry call of sendBatch, whose maxRetries is the
\* batcher's.
retriesExhausted(attempt) ==
  lastAttempt(attempt, MaxRetries)

\* withRetry, `maxDelay = 30000` in the destructuring of the options.
effectiveMaxDelay(maxDelay) ==
  IF maxDelay.given THEN maxDelay.ms ELSE DefaultMaxDelay

\* Faulty variant of backoffDelay: the exponent is the retry number.
backoffDelay_late(retryDelay, attempt, maxDelay) ==
  Min(retryDelay * 2^(attempt + 1), maxDelay)

\* withRetry: Math.min(retryDelay * Math.pow(2, attempt), maxDelay), with
\* attempt the 0-based number of the attempt that has just failed.
backoffDelay(retryDelay, attempt, maxDelay) ==
  Min(retryDelay * 2^attempt, maxDelay)

\* withRetry, catch: `error instanceof Error ? error : new Error(String(error))`.
\* The Error instances among the values fn rejects with are TransportErrors;
\* anything else is wrapped in a new Error, which has no code or status.
asError(error) ==
  IF error \in TransportErrors THEN error ELSE HttpError(NoStatus)

\* ------------------------------------------------ EventBatcher.processBatch
\* BatchResult.errors as the collector can send it for a batch: absent, or a
\* list naming some events of the batch (an entry naming an event outside the
\* batch matches no batch event and changes nothing).
ResultErrors(events) ==
  {[present |-> FALSE, ids |-> {}]}
    \cup {[present |-> TRUE, ids |-> R] : R \in SUBSET Range(events)}

\* The BatchResult of a success response: the two counts are whatever the
\* collector says, independent of the errors list.
BatchResults(events) ==
  [accepted : 0..Len(events), rejected : 0..Len(events),
   errors : ResultErrors(events)]

\* Faulty variant of successfulIds: no event counts as accepted.
successfulIds_none(events, errors) ==
  {}

\* Faulty variant of successfulIds: result.errors is ignored.
successfulIds_all(events, errors) ==
  Range(events)

\* processBatch, lines 136-141: the events of the batch with no entry in
\* result.errors.
successfulIds(events, errors) ==
  {e \in Range(events) : ~(errors.present /\ e \in errors.ids)}

\* Faulty variants of dropOnFailure: the classification is not consulted.
dropOnFailure_always(error) ==
  TRUE

dropOnFailure_never(error) ==
  FALSE

\* processBatch, line 163: if (!isRetryableError(error)) remove the batch.
dropOnFailure(error) ==
  ~isRetryableError(error)

\* Faulty variant of rethrows: the error is thrown even with an observer.
rethrows_always(hasObserver) ==
  TRUE

\* processBatch, lines 155-160: onError is called when set, else `throw err`.
rethrows(hasObserver) ==
  ~hasObserver

\* Faulty variant of requestBody: a new batch id for every attempt.
requestBody_newId(body, attempt) ==
  [body EXCEPT !.batch_id = attempt + 1]

\* sendBatch: the body of the POST of attempt number `attempt`.  fn closes
\* over `events` and over `batch_id`, which sendBatch took from
\* crypto.randomUUID() once, before calling withRetry.
requestBody(body, attempt) ==
  body

\* Faulty variant of notify: the observer is called twice.
notify_twice(hasObserver, log, error, events) ==
  IF hasObserver
    THEN log \o <<[error |-> error, events |-> events],
                  [error |-> error, events |-> events]>>
    ELSE log

\* processBatch, lines 155-157: if (this.config.onError)
\* this.config.onError(err, events).
notify(hasObserver, log, error, events) ==
  IF hasObserver THEN Append(log, [error |-> error, events |-> events]) ELSE log

\* Faulty variant of cancelled: a stopped batcher abandons its retries.
cancelled_onStop(stopped) ==
  stopped

\* withRetry's loop and processBatch never look at isStopped (or at any
\* abort signal): nothing cancels a cycle in progress.
cancelled(stopped) ==
  FALSE

\* processBatch resumed after `await storage.peek`: an empty batch returns;
\* otherwise sendBatch takes a batch_id from crypto.randomUUID() (the
\* cycle's first and only one) and makes the first Transport call
\* (withRetry, attempt 0).
ProcessBatch(s) ==
  /\ cycles[s].pc = "peeked"
  /\ cycles' = [cycles EXCEPT ![s] =
                  IF Len(cycles[s].batch) = 0
                    THEN [@ EXCEPT !.pc = "release", !.outcome = "empty",
                                   !.startedBy = ""]
                    ELSE [@ EXCEPT !.pc = "inflight", !.calls = 1,
                                   !.startedBy = "",
                                   !.uuids = 1,
                                   !.body = [batch_id |-> 1, events |-> cycles[s].batch],
                                   !.sent = <<requestBody([batch_id |-> 1,
                                                           events |-> cycles[s].batch], 0)>>]]
  /\ UNCHANGED <<harness, flushCaller, recordOutcome, queue, nextId, onError, isProcessing, isStopped, flushTimer,
                 adds, stopPc, stopSlot, stopN, restopped, addOutcome, flushResult, delivered, kept,
                 allOk>>

\* The Transport call resolves with a BatchResult: withRetry returns it and
\* processBatch removes the events the result does not name; the counts are
\* only logged.
TransportSuccess(s, result) ==
  /\ cycles[s].pc = "inflight"
  /\ ~MicrotaskPending
  /\ result \in BatchResults(cycles[s].batch)
  /\ LET ok == successfulIds(cycles[s].batch, result.errors)
         named == IF result.errors.present THEN result.errors.ids ELSE {}
     IN /\ queue' = remove(queue, ok)
        /\ delivered' = delivered \cup ok
        /\ kept' = {}
        /\ allOk' = (allOk /\ named = {})
        /\ cycles' = [cycles EXCEPT ![s] =
                        [@ EXCEPT !.pc = "release",
                                  !.outcome = "success",
                                  !.successes = @ + 1,
                                  !.named = named]]
  /\ UNCHANGED <<harness, flushCaller, recordOutcome, nextId, onError, isProcessing, isStopped, flushTimer, adds,
                 stopPc, stopSlot, stopN, restopped, addOutcome, flushResult>>

\* The Transport call fails with `error`.  withRetry either schedules a retry
\* (onRetry, then the backoff wait) or, on its last attempt, throws into the
\* catch block of processBatch: the observer is called, or the error is
\* rethrown when there is none, which leaves the catch block; only when it
\* was not rethrown is a non-retryable batch then removed.
TransportFailure(s, error) ==
  /\ cycles[s].pc = "inflight"
  /\ ~MicrotaskPending
  /\ error \in TransportErrors
  /\ allOk' = FALSE
  /\ IF retriesExhausted(cycles[s].attempt)
       THEN /\ cycles' = [cycles EXCEPT ![s] =
                            [@ EXCEPT !.pc = "release",
                                      !.outcome = "failed",
                                      !.lastError = error,
                                      !.raised = rethrows(onError),
                                      !.observed =
                                         notify(onError, @, error, cycles[s].batch)]]
            /\ queue' = IF ~rethrows(onError) /\ dropOnFailure(error)
                          THEN remove(queue, Range(cycles[s].batch))
                          ELSE queue
            /\ kept' = IF isRetryableError(error)
                         THEN Range(cycles[s].batch)
                         ELSE {}
       ELSE /\ cycles' = [cycles EXCEPT ![s] =
                            [@ EXCEPT !.pc = "backoff",
                                      !.lastError = error,
                                      !.retried = @ + 1]]
            /\ UNCHANGED <<queue, kept>>
  /\ UNCHANGED <<harness, flushCaller, recordOutcome, nextId, onError, isProcessing, isStopped, flushTimer, adds,
                 stopPc, stopSlot, stopN, restopped, addOutcome, flushResult, delivered>>

\* withRetry: the backoff wait is over, the loop makes the next attempt.
BackoffElapsed(s) ==
  /\ cycles[s].pc = "backoff"
  /\ ~MicrotaskPending
  /\ ~cancelled(isStopped)
  /\ cycles' = [cycles EXCEPT ![s] =
                  [@ EXCEPT !.pc = "inflight",
                            !.attempt = @ + 1,
                            !.calls = @ + 1,
                            !.sent = Append(@, requestBody(cycles[s].body,
                                                           cycles[s].attempt + 1))]]
  /\ UNCHANGED <<harness, flushCaller, recordOutcome, queue, nextId, onError, isProcessing, isStopped, flushTimer,
                 adds, stopPc, stopSlot, stopN, restopped, addOutcome, flushResult, delivered, kept,
                 allOk>>

\* Faulty variant of releasesGuard: the flag is reset only on a normal return
\* of processBatch, as without try/finally.
releasesGuard_onReturnOnly(threw) ==
  ~threw

\* flush(), lines 104-108: `finally { this.isProcessing = false; }` runs
\* whether processBatch returned or threw.
releasesGuard(threw) ==
  TRUE

\* flush() resumed after `await this.processBatch()`: the finally block; the
\* promise of flush() then resolves, or rejects with what processBatch threw,
\* and a client.flush() call awaiting it gets that outcome.
FlushFinally(s) ==
  /\ cycles[s].pc = "release"
  /\ isProcessing' = IF releasesGuard(cycles[s].raised) THEN FALSE ELSE isProcessing
  /\ cycles' = [cycles EXCEPT ![s] = IdleCycle]
  /\ flushCaller' =
       IF flushCaller.pc = "awaiting" /\ flushCaller.slot = s
         THEN [pc |-> IF cycles[s].raised THEN "rejected" ELSE "resolved",
               slot |-> 0, seen |-> {},
               left |-> flushCaller.seen \cap Range(queue)]
         ELSE flushCaller
  /\ UNCHANGED <<harness, recordOutcome, queue, nextId, onError, isStopped, flushTimer, adds, stopPc,
                 stopSlot, stopN, restopped, addOutcome, flushResult, delivered, kept,
                 allOk>>

\* ------------------------------------------------------------- Next
Next ==
  \/ AddCall
  \/ \E i \in 1..MaxPendingAdds : AddSize(i)
  \/ \E i \in 1..MaxPendingAdds : AddTrigger(i)
  \/ FlushCall
  \/ FlushReturn
  \/ TimerTick
  \/ StopCall
  \/ StopReturn
  \/ \E s \in Slots : ProcessBatch(s)
  \/ \E s \in Slots : \E result \in BatchResults(cycles[s].batch) : TransportSuccess(s, result)
  \/ \E s \in Slots : \E error \in TransportErrors : TransportFailure(s, error)
  \/ \E s \in Slots : BackoffElapsed(s)
  \/ \E s \in Slots : FlushFinally(s)

Spec ==
  Init /\ [][Next]_vars

\* ------------------------------------------------ timer-driven delivery
\* SpecLive: a client that is never shut down and whose application only
\* records events (no client.flush() call), with a Transport whose failures
\* are all transient.  Every other action is as in Spec.
TransientErrors ==
  {error \in TransportErrors : isRetryableError(error)}

\* The collector accepts the whole batch: a result with no errors list.
AcceptAll(events) ==
  [accepted |-> Len(events), rejected |-> 0,
   errors |-> [present |-> FALSE, ids |-> {}]]

NextLive ==
  \/ AddCall
  \/ \E i \in 1..MaxPendingAdds : AddSize(i)
  \/ \E i \in 1..MaxPendingAdds : AddTrigger(i)
  \/ TimerTick
  \/ \E s \in Slots : ProcessBatch(s)
  \/ \E s \in Slots : \E result \in BatchResults(cycles[s].batch) : TransportSuccess(s, result)
  \/ \E s \in Slots : \E error \in TransientErrors : TransportFailure(s, error)
  \/ \E s \in Slots : BackoffElapsed(s)
  \/ \E s \in Slots : FlushFinally(s)

\* What the runtime and the environment guarantee: the interval timer keeps
\* firing (setInterval), a continuation waiting on a settled promise is run
\* (the microtask queue is drained), a backoff timer expires (setTimeout),
\* and a Transport that is called again and again eventually accepts the
\* batch it is sent.
FairLive ==
  /\ WF_vars(TimerTick)
  /\ \A i \in 1..MaxPendingAdds : WF_vars(AddSize(i)) /\ WF_vars(AddTrigger(i))
  /\ \A s \in Slots :
       /\ WF_vars(ProcessBatch(s))
       /\ WF_vars(BackoffElapsed(s))
       /\ WF_vars(FlushFinally(s))
       /\ SF_vars(TransportSuccess(s, AcceptAll(cycles[s].batch)))

SpecLive ==
  Init /\ [][NextLive]_vars /\ FairLive

\* ------------------------------------------- MemoryQueueStorage harness
\* SpecStorage drives one MemoryQueueStorage through its five methods in any
\* order, with no batcher around it.
StoragePush ==
  /\ nextId <= MaxEvents
  /\ queue' = push(queue, nextId)
  /\ nextId' = nextId + 1
  /\ pushed' = Append(pushed, nextId)
  /\ lastPeek' = NoPeek
  /\ lastRemove' = NoRemove
  /\ UNCHANGED <<batcher, touched, retry, facade, classified>>

StorageShift ==
  /\ queue' = shift(queue)
  /\ touched' = TRUE
  /\ lastPeek' = NoPeek
  /\ lastRemove' = NoRemove
  /\ UNCHANGED <<batcher, nextId, pushed, retry, facade, classified>>

\* Faulty variant of afterPeek: the returned events are taken out (splice).
afterPeek_splice(q, count) ==
  SubSeq(q, Min(count, Len(q)) + 1, Len(q))

\* The queue peek leaves behind: Array.prototype.slice copies, and peek does
\* not assign this.queue.
afterPeek(q, count) ==
  q

\* peek(count); the harness notes the call (turn alternates between 1 and 2
\* to tell two equal calls in a row apart).
StoragePeek(count) ==
  /\ lastPeek' = [count |-> count, events |-> peek(queue, count),
                  turn |-> IF lastPeek.turn = 1 THEN 2 ELSE 1]
  /\ lastRemove' = NoRemove
  /\ queue' = afterPeek(queue, count)
  /\ UNCHANGED <<batcher, nextId, pushed, touched, retry, facade, classified>>

\* remove(eventIds); the harness notes the call.
StorageRemove(eventIds) ==
  /\ queue' = remove(queue, eventIds)
  /\ touched' = TRUE
  /\ lastRemove' = [ids |-> eventIds,
                    turn |-> IF lastRemove.turn = 1 THEN 2 ELSE 1]
  /\ lastPeek' = NoPeek
  /\ UNCHANGED <<batcher, nextId, pushed, retry, facade, classified>>

StorageClear ==
  /\ queue' = clear(queue)
  /\ pushed' = << >>
  /\ touched' = FALSE
  /\ lastPeek' = NoPeek
  /\ lastRemove' = NoRemove
  /\ UNCHANGED <<batcher, nextId, retry, facade, classified>>

NextStorage ==
  \/ StoragePush
  \/ StorageShift
  \/ \E count \in 0..(Capacity + 1) : StoragePeek(count)
  \/ \E eventIds \in SUBSET (1..MaxEvents) : StorageRemove(eventIds)
  \/ StorageClear

SpecStorage ==
  Init /\ [][NextStorage]_vars

\* ------------------------------------------------------ withRetry harness
\* SpecRetry drives one withRetry call on its own: any options, and an fn
\* that resolves or rejects as it likes on each invocation.
RetryDelays ==
  {1, DefaultRetryDelay, 7000, 40000}

MaxDelays ==
  {NoMaxDelay, [given |-> TRUE, ms |-> 5000]}

\* What fn may reject with: an Error with a status attached, or a value that
\* is not an Error (an object literal carrying a status).
FnRejections ==
  TransportErrors \cup {[code |-> "", status |-> 503, name |-> ""]}

\* withRetry(fn, options) is called: attempt 0, fn is invoked.
RetryCall(maxRetries, retryDelay, maxDelay, onRetry) ==
  /\ retry.pc = "idle"
  /\ retry' = [IdleRetry EXCEPT !.pc = "calling", !.maxRetries = maxRetries,
                                !.retryDelay = retryDelay, !.maxDelay = maxDelay,
                                !.onRetry = onRetry, !.calls = 1]
  /\ UNCHANGED <<batcher, queue, nextId, pushed, touched, lastPeek, lastRemove, facade,
                 classified>>

\* fn resolves: `return await fn()`.
RetryFnResolves(value) ==
  /\ retry.pc = "calling"
  /\ retry' = [retry EXCEPT !.pc = "returned", !.result = value]
  /\ UNCHANGED <<batcher, queue, nextId, pushed, touched, lastPeek, lastRemove, facade,
                 classified>>

\* Faulty variant of onRetryAttempt: the loop index is passed as it is.
onRetryAttempt_zeroBased(attempt) ==
  attempt

\* The attempt number handed to onRetry: `onRetry(lastError, attempt + 1)`.
onRetryAttempt(attempt) ==
  attempt + 1

\* `if (onRetry) onRetry(lastError, attempt + 1)`: the calls made so far,
\* with one more when the hook is given.
callOnRetry(hasOnRetry, calls, lastError, attempt) ==
  IF hasOnRetry
    THEN Append(calls, [error |-> lastError, attempt |-> onRetryAttempt(attempt)])
    ELSE calls

\* fn rejects: the catch block records lastError, throws it on the last
\* attempt and otherwise computes the delay, calls onRetry and starts the
\* backoff timer.
RetryFnRejects(error) ==
  /\ retry.pc = "calling"
  /\ retry' =
       IF lastAttempt(retry.attempt, retry.maxRetries)
         THEN [retry EXCEPT !.pc = "thrown",
                            !.failures = Append(@, error),
                            !.lastError = asError(error),
                            !.thrown = asError(error)]
         ELSE [retry EXCEPT !.pc = "waiting",
                            !.failures = Append(@, error),
                            !.lastError = asError(error),
                            !.retried = callOnRetry(retry.onRetry, @, asError(error),
                                                    retry.attempt),
                            !.waits = Append(@, backoffDelay(retry.retryDelay, retry.attempt,
                                                   effectiveMaxDelay(retry.maxDelay)))]
  /\ UNCHANGED <<batcher, queue, nextId, pushed, touched, lastPeek, lastRemove, facade,
                 classified>>

\* The backoff timer fires: attempt++ and fn is invoked again.
RetryWaitElapsed ==
  /\ retry.pc = "waiting"
  /\ retry' = [retry EXCEPT !.pc = "calling", !.attempt = @ + 1, !.calls = @ + 1]
  /\ UNCHANGED <<batcher, queue, nextId, pushed, touched, lastPeek, lastRemove, facade,
                 classified>>

NextRetry ==
  \/ \E maxRetries \in 0..MaxRetryBudget : \E retryDelay \in RetryDelays :
       \E maxDelay \in MaxDelays : \E onRetry \in BOOLEAN :
         RetryCall(maxRetries, retryDelay, maxDelay, onRetry)
  \/ \E value \in {"r1", "r2"} : RetryFnResolves(value)
  \/ \E error \in FnRejections : RetryFnRejects(error)
  \/ RetryWaitElapsed

SpecRetry ==
  Init /\ [][NextRetry]_vars

\* --------------------------------------------------- IdentroClient harness
\* SpecFacade constructs one IdentroClient from any config and calls
\* recordFailure on it with arguments of either call shape.
\* Faulty variant of orDefault: the default replaces whatever was passed.
orDefault_always(v, d) ==
  d

\* `config.x || d`: the default replaces every falsy value, so undefined and
\* 0; any other number, negative ones included, is kept.
orDefault(v, d) ==
  IF v.given /\ v.n # 0 THEN v.n ELSE d

\* `config.throwOnError || false`.
orFalse(v) ==
  v.given /\ v.b

\* The BatcherConfig literal of the constructor: the tunables are copied out
\* of this.config, and onError is set unless throwOnError is.
batcherConfig(config) ==
  [batchSize |-> config.batchSize, flushInterval |-> config.flushInterval,
   maxRetries |-> config.maxRetries, retryDelay |-> config.retryDelay,
   onError |-> ~config.throwOnError]

\* The values a test passes for a numeric tunable.
ConfigInputs ==
  {Absent, Given(0), Given(-1), Given(2)}

\* new IdentroClient(config): the only validation is `if (!config.apiKey)
\* throw`; then the defaults are filled in with `||` and the batcher is
\* created from this.config.
clientConfig(batchSize, flushInterval, maxRetries, retryDelay, strict) ==
  [batchSize |-> orDefault(batchSize, DefaultBatchSize),
   flushInterval |-> orDefault(flushInterval, DefaultFlushInterval),
   maxRetries |-> orDefault(maxRetries, DefaultMaxRetries),
   retryDelay |-> orDefault(retryDelay, DefaultRetryDelay),
   throwOnError |-> orFalse(strict)]

Construct(apiKey, batchSize, flushInterval, maxRetries, retryDelay, strict) ==
  /\ facade.pc = "none"
  /\ facade' =
       [facade EXCEPT
          !.pc = IF apiKey THEN "constructed" ELSE "failed",
          !.input = [apiKey |-> apiKey, batchSize |-> batchSize,
                     flushInterval |-> flushInterval, maxRetries |-> maxRetries,
                     retryDelay |-> retryDelay, throwOnError |-> strict],
          !.config =
             IF apiKey
               THEN clientConfig(batchSize, flushInterval, maxRetries, retryDelay,
                                 strict)
               ELSE @,
          !.batcher =
             IF apiKey
               THEN batcherConfig(clientConfig(batchSize, flushInterval, maxRetries,
                                               retryDelay, strict))
               ELSE @]
  /\ UNCHANGED <<batcher, queue, nextId, pushed, touched, lastPeek, lastRemove, retry,
                 classified>>

\* The values of the FailReason type used here.
FailReasons ==
  {"NETWORK_ERROR", "POLICY_DENY"}

\* A property of the options argument as the spread `...options` copies it;
\* spreading a value that is not an object copies nothing.
optionsTaskId(options) ==
  IF options.type = "object" THEN JsString(options.str) ELSE JsUndefined

optionsLatency(options) ==
  IF options.type = "object" THEN JsNumber(options.num) ELSE JsUndefined

\* recordFailure, the implementation behind both overloads: the options
\* object it passes to recordEvent.  A string first argument selects the
\* legacy shape (taskId, latencyMs, failReason); anything else the enhanced
\* shape (failReason, options).
recordFailure(taskIdOrFailReason, latencyMsOrOptions, failReason) ==
  IF taskIdOrFailReason.type = "string"
    THEN [task_id |-> taskIdOrFailReason, status |-> "fail",
          latency_ms |-> latencyMsOrOptions, fail_reason |-> failReason]
    ELSE [task_id |-> optionsTaskId(latencyMsOrOptions), status |-> "fail",
          latency_ms |-> optionsLatency(latencyMsOrOptions),
          fail_reason |-> taskIdOrFailReason]

FirstArgs ==
  {JsString(r) : r \in FailReasons} \cup {JsString("task-1"), JsUndefined}

SecondArgs ==
  {JsNumber(250), JsOptions("task-1", 250), JsUndefined}

ThirdArgs ==
  {JsString(r) : r \in FailReasons} \cup {JsUndefined}

\* client.recordFailure(a1, a2, a3): one recordEvent call with the options
\* built above; recordEvent copies task_id, status, latency_ms and
\* fail_reason into the event unchanged.
RecordFailureCall(a1, a2, a3) ==
  /\ facade.pc = "constructed"
  /\ facade' = [facade EXCEPT !.call = <<a1, a2, a3>>,
                                !.recorded = <<recordFailure(a1, a2, a3)>>]
  /\ UNCHANGED <<batcher, queue, nextId, pushed, touched, lastPeek, lastRemove, retry,
                 classified>>

\* Object.assign(target, updates): every property the updates name is
\* written over the target's.
assign(config, updates) ==
  [batchSize |-> IF updates.batchSize.given THEN updates.batchSize.n
                 ELSE config.batchSize,
   flushInterval |-> IF updates.flushInterval.given THEN updates.flushInterval.n
                     ELSE config.flushInterval,
   maxRetries |-> IF updates.maxRetries.given THEN updates.maxRetries.n
                  ELSE config.maxRetries,
   retryDelay |-> IF updates.retryDelay.given THEN updates.retryDelay.n
                  ELSE config.retryDelay,
   throwOnError |-> IF updates.throwOnError.given THEN updates.throwOnError.b
                    ELSE config.throwOnError]

\* Faulty variant of batcherAfterUpdate: the batcher reads the client's
\* config object.
batcherAfterUpdate_shared(batcherCfg, config) ==
  batcherConfig(config)

\* The EventBatcher's config after updateConfig: the object literal built in
\* the constructor, which updateConfig does not write to.
batcherAfterUpdate(batcherCfg, config) ==
  batcherCfg

\* The retry options getScore passes to withRetry, read from this.config
\* when it is called.
getScoreRetry(config) ==
  [maxRetries |-> config.maxRetries, retryDelay |-> config.retryDelay]

\* The updateConfig arguments a test passes: one tunable, the retry policy,
\* throwOnError either way, or everything at once.
ConfigUpdates ==
  {[NoUpdates EXCEPT !.batchSize = Given(7)],
   [NoUpdates EXCEPT !.flushInterval = Given(7)],
   [NoUpdates EXCEPT !.maxRetries = Given(7), !.retryDelay = Given(7)],
   [NoUpdates EXCEPT !.throwOnError = GivenFlag(TRUE)],
   [NoUpdates EXCEPT !.throwOnError = GivenFlag(FALSE)],
   [batchSize |-> Given(7), flushInterval |-> Given(7), maxRetries |-> Given(7),
    retryDelay |-> Given(7), throwOnError |-> GivenFlag(TRUE)]}

\* client.updateConfig(updates): Object.assign(this.config, updates).  The
\* harness ends its record calls here and drops its notes of them.
UpdateConfig(updates) ==
  /\ facade.pc = "constructed"
  /\ facade' = [facade EXCEPT
                  !.pc = "updated",
                  !.updates = updates,
                  !.call = NoFacade.call,
                  !.recorded = << >>,
                  !.config = assign(@, updates),
                  !.batcher = batcherAfterUpdate(@, assign(facade.config, updates))]
  /\ UNCHANGED <<batcher, queue, nextId, pushed, touched, lastPeek, lastRemove, retry,
                 classified>>

NextFacade ==
  \/ \E apiKey \in BOOLEAN :
       \E batchSize \in ConfigInputs : \E flushInterval \in ConfigInputs :
         \E maxRetries \in ConfigInputs : \E retryDelay \in ConfigInputs :
           \E strict \in {AbsentFlag, GivenFlag(TRUE)} :
             Construct(apiKey, batchSize, flushInterval, maxRetries, retryDelay,
                       strict)
  \/ \E a1 \in FirstArgs : \E a2 \in SecondArgs : \E a3 \in ThirdArgs :
       RecordFailureCall(a1, a2, a3)
  \/ \E updates \in ConfigUpdates : UpdateConfig(updates)

SpecFacade ==
  Init /\ [][NextFacade]_vars

\* ------------------------------------------------ isRetryableError harness
\* SpecClassify calls isRetryableError on thrown values with any combination
\* of code, status and name: a missing property, the values the function
\* names, their neighbours, and other values.
ErrorCodes ==
  {"", "ECONNREFUSED", "ETIMEDOUT", "ENOTFOUND"}

ErrorStatuses ==
  {NoStatus, 200, 400, 404, 428, 429, 430, 499, 500, 503, 599, 600}

ErrorNames ==
  {"", "Error", "TypeError", "NetworkError", "TimeoutError"}

Classify(error) ==
  /\ classified' = [called |-> TRUE, error |-> error,
                     retryable |-> isRetryableError(error)]
  /\ UNCHANGED <<batcher, queue, nextId, pushed, touched, lastPeek, lastRemove,
                 retry, facade>>

NextClassify ==
  \E code \in ErrorCodes : \E status \in ErrorStatuses : \E name \in ErrorNames :
    Classify([code |-> code, status |-> status, name |-> name])

SpecClassify ==
  Init /\ [][NextClassify]_vars

\* =============================================================== claims
\* The last n elements of s (all of s when it is shorter).
Suffix(s, n) ==
  SubSeq(s, Len(s) - Min(n, Len(s)) + 1, Len(s))

\* A flush cycle ends its Transport phase in this step.
Settles(s) ==
  cycles[s].pc = "inflight" /\ cycles'[s].pc = "release"

\* C1. Single-flight: at most one flush cycle is in progress at any time, and
\* a flush() call made while a cycle is in progress returns at the guard: it
\* starts no cycle (so no Transport call) and leaves the queue as it is.
C1_SingleFlight ==
  [][/\ Cardinality(Active') <= 1
     /\ (Active # {} /\ flushResult' # flushResult)
          => (flushResult' = "blocked" /\ cycles' = cycles /\ queue' = queue)]_vars

C1_Witness ==
  \E s \in Slots : cycles[s].pc = "inflight" /\ flushResult = "blocked"

\* C2. No silent loss: an event leaves the queue only by capacity eviction on
\* a push, by a success response for a batch holding it that does not name it,
\* or by the terminal non-retryable failure of a batch holding it.
C2_NoSilentLoss ==
  [][\A e \in Range(queue) \ Range(queue') :
       \/ (nextId' = nextId + 1 /\ Len(queue) >= Capacity /\ e = Head(queue))
       \/ \E s \in Slots :
            /\ Settles(s)
            /\ e \in Range(cycles[s].batch)
            /\ \/ cycles'[s].outcome = "success" /\ e \notin cycles'[s].named
               \/ cycles'[s].outcome = "failed"
                    /\ ~isRetryableError(cycles'[s].lastError)]_vars

C2_Witness ==
  \E s \in Slots :
    /\ cycles[s].pc = "release"
    /\ cycles[s].outcome = "failed"
    /\ isRetryableError(cycles[s].lastError)
    /\ Range(cycles[s].batch) \subseteq Range(queue)

\* C3. Shutdown drains: stop() called with 1..batchSize events queued and a
\* Transport that has accepted everything it was sent returns with the queue
\* empty.
C3_ShutdownDrains ==
  (stopPc = "returned" /\ stopN \in 1..BatchSize /\ allOk) => queue = << >>

\* C4. After stop() every add() call fails with the stopped error: the event
\* is not pushed, no continuation of add() is left and no flush starts.
C4_AddAfterStop ==
  [][(isStopped /\ nextId' # nextId)
       => (addOutcome' = "stopped" /\ queue' = queue /\ adds' = adds
             /\ cycles' = cycles)]_vars

C4_Witness ==
  isStopped /\ addOutcome = "stopped" /\ queue # << >>

\* C5. Capacity invariant of the storage: size() never exceeds the capacity,
\* and as long as only push (and peek) ran since the queue was last empty by
\* construction or clear(), the queue holds exactly the last Capacity pushed
\* events in insertion order.
C5_Capacity ==
  /\ size(queue) <= Capacity
  /\ ~touched => queue = Suffix(pushed, Capacity)

C5_Witness ==
  ~touched /\ Len(pushed) > Capacity /\ size(queue) = Capacity

\* C6. At-least-once under transient failure: a cycle whose Transport failed
\* r < maxRetries times and then accepted the whole batch ends with no batch
\* event left in the queue and exactly one success response; and no cycle
\* ever carries an event that a success response has accepted.
C6_AtLeastOnce ==
  \A s \in Slots :
    /\ (/\ cycles[s].pc = "release"
        /\ cycles[s].outcome = "success"
        /\ cycles[s].named = {}
        /\ cycles[s].calls - 1 < MaxRetries)
         => /\ Range(cycles[s].batch) \cap Range(queue) = {}
            /\ Range(cycles[s].batch) \subseteq delivered
            /\ cycles[s].successes = 1
    /\ cycles[s].pc \in {"peeked", "inflight", "backoff"}
         => Range(cycles[s].batch) \cap delivered = {}

C6_Witness ==
  \E s \in Slots :
    /\ cycles[s].pc = "release"
    /\ cycles[s].outcome = "success"
    /\ cycles[s].named = {}
    /\ cycles[s].calls = 2
    /\ cycles[s].calls - 1 < MaxRetries
    /\ isRetryableError(cycles[s].lastError)

\* C7. Partial rejection: a success response naming the set R of batch B
\* removes exactly B \ R from the queue; everything else, R included, stays in
\* its order.  With nothing named all of B is removed.
C7_PartialRejection ==
  [][\A s \in Slots :
       (Settles(s) /\ cycles'[s].outcome = "success")
         => queue' = SelectSeq(queue,
                       LAMBDA e : e \notin Range(cycles[s].batch)
                                    \/ e \in cycles'[s].named)]_vars

C7_Witness ==
  \E s \in Slots :
    /\ cycles[s].pc = "release"
    /\ cycles[s].outcome = "success"
    /\ cycles[s].named # {}
    /\ cycles[s].named # Range(cycles[s].batch)
    /\ cycles[s].named \subseteq Range(queue)
    /\ (Range(cycles[s].batch) \ cycles[s].named) \cap Range(queue) = {}

\* C8. Non-retryable drop with an error observer: a cycle that ended in a
\* terminal non-retryable failure has removed every event of its batch and has
\* called the observer exactly once, with that error and the batch.
C8_NonRetryableDrop ==
  \A s \in Slots :
    (/\ onError
     /\ cycles[s].pc = "release"
     /\ cycles[s].outcome = "failed"
     /\ ~isRetryableError(cycles[s].lastError))
      => /\ Range(cycles[s].batch) \cap Range(queue) = {}
         /\ cycles[s].observed
              = <<[error |-> cycles[s].lastError, events |-> cycles[s].batch]>>

C8_Witness ==
  \E s \in Slots :
    /\ onError
    /\ cycles[s].pc = "release"
    /\ cycles[s].outcome = "failed"
    /\ ~isRetryableError(cycles[s].lastError)
    /\ queue # << >>

\* C9. Permanent errors are never retried: once the Transport call of a cycle
\* has failed with a non-retryable error, no onRetry notification, no backoff
\* wait and no further Transport call follows in that cycle.
C9_PermanentNeverRetried ==
  \A s \in Slots :
    (cycles[s].lastError # NoError /\ ~isRetryableError(cycles[s].lastError))
      => /\ cycles[s].pc \notin {"backoff", "inflight"}
         /\ cycles[s].calls = 1 => cycles[s].retried = 0

\* C10. Retryable failure keeps the batch: the step in which a cycle gives up
\* on a retryable error leaves the queue unchanged, and the next cycle takes
\* every event of that batch that is still queued into its own batch.
C10_RetryableKeepsBatch ==
  [][\A s \in Slots :
       /\ (/\ Settles(s)
           /\ cycles'[s].outcome = "failed"
           /\ isRetryableError(cycles'[s].lastError))
            => queue' = queue
       /\ (cycles[s].pc = "idle" /\ cycles'[s].pc = "peeked")
            => (kept \cap Range(queue)) \subseteq Range(cycles'[s].batch)]_vars

C10_Witness ==
  \E s \in Slots :
    /\ cycles[s].pc = "inflight"
    /\ kept # {}
    /\ kept \subseteq Range(cycles[s].batch)

\* C11. Strict mode, permanent error: a cycle that ended in a terminal
\* non-retryable failure with no error observer has raised the error out of
\* flush() and has removed every event of its batch from the queue.
C11_StrictPermanentDrop ==
  \A s \in Slots :
    (/\ throwOnError
     /\ cycles[s].pc = "release"
     /\ cycles[s].outcome = "failed"
     /\ ~isRetryableError(cycles[s].lastError))
      => /\ cycles[s].raised
         /\ Range(cycles[s].batch) \cap Range(queue) = {}

\* C12. Lenient mode never interrupts the producer: with throwOnError false
\* no recordEvent() call raises, no flush cycle throws out of processBatch (so
\* no flush() promise, awaited by client.flush() or by stop(), rejects), and
\* every terminal failure has been handed to the observer, once.
C12_LenientNeverRaises ==
  ~throwOnError
    => /\ recordOutcome # "raised"
       /\ flushCaller.pc # "rejected"
       /\ \A s \in Slots :
            /\ ~cycles[s].raised
            /\ (cycles[s].pc = "release" /\ cycles[s].outcome = "failed")
                 => cycles[s].observed
                      = <<[error |-> cycles[s].lastError, events |-> cycles[s].batch]>>

C12_Witness ==
  \E s \in Slots :
    /\ ~throwOnError
    /\ cycles[s].pc = "release"
    /\ cycles[s].outcome = "failed"
    /\ flushCaller.pc = "awaiting"
    /\ flushCaller.slot = s
    /\ recordOutcome = "queued"

\* C13. Strict mode surfaces every delivery failure: whenever a flush cycle
\* has thrown out of processBatch, some caller is awaiting the flush() promise
\* of that cycle (a client.flush() call or stop()), so the rejection reaches
\* a caller.
C13_StrictSurfaces ==
  \A s \in Slots :
    (cycles[s].pc = "release" /\ cycles[s].raised)
      => \/ (flushCaller.pc = "awaiting" /\ flushCaller.slot = s)
         \/ (stopPc = "awaiting" /\ stopSlot = s)

\* C14. Use after shutdown is always surfaced: a recordEvent() call that
\* batcher.add refused with the stopped error raises that error to its
\* caller, in either mode.
C14_UseAfterStopSurfaced ==
  addOutcome = "stopped" => recordOutcome = "raised"

\* C14, amended.  batcher.add refuses every call after stop() with the stopped
\* error and does not queue the event; recordEvent() raises that error to its
\* caller in strict mode only: in lenient mode its catch block logs the error
\* and the call completes normally.
C14_UseAfterStopByMode ==
  addOutcome = "stopped"
    => /\ isStopped
       /\ (nextId - 1) \notin Range(queue)
       /\ recordOutcome = IF throwOnError THEN "raised" ELSE "swallowed"

C14_Witness ==
  /\ addOutcome = "stopped"
  /\ ~throwOnError
  /\ recordOutcome = "swallowed"
  /\ queue # << >>

\* C15. Non-blocking add: a suspended add() can always resume, whatever the
\* Transport is doing; the step in which add() returns is the one that makes
\* its size check, and when the size it read is batchSize or more, no cycle
\* is in progress and the batcher is not stopped, that step starts a flush
\* cycle which has made no Transport call yet, so the cycle runs after add()
\* has returned.
C15_NonBlockingAdd ==
  /\ [](\A i \in 1..Len(adds) : ENABLED (AddSize(i) \/ AddTrigger(i)))
  /\ [][Len(adds') < Len(adds)
          => \E i \in 1..Len(adds) :
               /\ adds[i].pc = "sized"
               /\ adds' = SubSeq(adds, 1, i - 1) \o SubSeq(adds, i + 1, Len(adds))
               /\ (adds[i].size >= BatchSize /\ ~isProcessing /\ ~isStopped)
                    => \E s \in Slots :
                         /\ cycles[s].pc = "idle"
                         /\ cycles'[s].pc = "peeked"
                         /\ cycles'[s].calls = 0
                         /\ isProcessing']_vars

C15_Witness ==
  \E s \in Slots :
    /\ cycles[s].pc = "peeked"
    /\ cycles[s].startedBy = "add"
    /\ cycles[s].calls = 0
    /\ adds = << >>
    /\ size(queue) >= BatchSize

\* C16. Backoff schedule: the wait before the k-th retry of a withRetry call
\* is min(retryDelay * 2^(k-1), maxDelay), with maxDelay 30000 when the
\* option is not given; with retryDelay 1000 and no maxDelay the first four
\* waits are 1000, 2000, 4000, 8000, and no wait exceeds 30000.
C16_BackoffSchedule ==
  /\ \A k \in 1..Len(retry.waits) :
       /\ retry.waits[k] = Min(retry.retryDelay * 2^(k - 1),
                               IF retry.maxDelay.given THEN retry.maxDelay.ms ELSE 30000)
       /\ ~retry.maxDelay.given => retry.waits[k] <= 30000
  /\ retry.pc # "idle"
       => Len(retry.waits) = retry.calls - (IF retry.pc = "waiting" THEN 0 ELSE 1)
  /\ (retry.retryDelay = 1000 /\ ~retry.maxDelay.given /\ Len(retry.waits) >= 4)
       => SubSeq(retry.waits, 1, 4) = <<1000, 2000, 4000, 8000>>

C16_Witness ==
  /\ retry.retryDelay = 1000
  /\ ~retry.maxDelay.given
  /\ retry.waits = <<1000, 2000, 4000, 8000, 16000, 30000>>

\* C17. Retry executor outcome: withRetry never invokes fn more than
\* maxRetries + 1 times, every invocation before the current one failed, a
\* call that returned returns what the first successful invocation resolved
\* with, and a call that threw made exactly maxRetries + 1 invocations, all
\* failed, and threw the error of the last of them.
C17_RetryOutcome ==
  /\ retry.calls <= retry.maxRetries + 1
  /\ retry.pc \in {"calling", "returned"} => Len(retry.failures) = retry.calls - 1
  /\ retry.pc = "returned" => retry.result \in {"r1", "r2"}
  /\ retry.pc = "thrown"
       => /\ retry.calls = retry.maxRetries + 1
          /\ Len(retry.failures) = retry.calls
          /\ retry.thrown = asError(retry.failures[Len(retry.failures)])

C17_Witness ==
  /\ retry.pc = "thrown"
  /\ retry.maxRetries >= 2
  /\ retry.failures[1] \in TransportErrors
  /\ retry.thrown \in TransportErrors
  /\ retry.thrown # retry.failures[1]

\* C18. Guaranteed release of the single-flight guard: isProcessing is set
\* only while a flush cycle is in progress, so once a cycle has ended, however
\* it ended, the flag is false and the next flush() passes the guard unless
\* the batcher is stopped.
C18_GuardReleased ==
  Active = {} => ~isProcessing

C18_Witness ==
  /\ flushCaller.pc = "rejected"
  /\ Active = {}
  /\ ~isProcessing
  /\ ~isStopped

C20_FlushSendsAll ==
  (flushCaller.pc = "resolved" /\ ~isStopped /\ allOk) => flushCaller.left = {}

\* The tunables of a config: batchSize, flushInterval, maxRetries, retryDelay.
Tunables ==
  {"batchSize", "flushInterval", "maxRetries", "retryDelay"}

\* C21. Configuration validation: a constructor call that was given a zero
\* or negative batchSize, flushInterval, maxRetries or retryDelay fails, and
\* a constructed client holds only positive tunables.
C21_ConfigValidated ==
  /\ (facade.pc # "none"
        /\ \E t \in Tunables : facade.input[t].given /\ facade.input[t].n <= 0)
       => facade.pc = "failed"
  /\ facade.pc = "constructed" => \A t \in Tunables : facade.config[t] > 0

\* C22. Enhanced recordFailure call shape: recordFailure(failReason, options)
\* with failReason a FailReason value and options an options object hands
\* recordEvent exactly one event, with status 'fail', fail_reason =
\* failReason, task_id = options.task_id and latency_ms = options.latency_ms.
C22_EnhancedRecordFailure ==
  (/\ facade.call[1].type = "string"
   /\ facade.call[1].str \in FailReasons
   /\ facade.call[2].type = "object")
    => /\ Len(facade.recorded) = 1
       /\ facade.recorded[1].status = "fail"
       /\ facade.recorded[1].fail_reason = facade.call[1]
       /\ facade.recorded[1].task_id = JsString(facade.call[2].str)
       /\ facade.recorded[1].latency_ms = JsNumber(facade.call[2].num)

\* C23. No mid-flight cancellation: on a stopped batcher a flush cycle in
\* progress can still take each of its remaining steps (the first Transport
\* call, a response, the retry after a backoff wait, the finally block), a
\* success response received after stop() has reconciled the queue, and
\* stop() can return at once: it awaits no cycle.
C23_NoMidFlightCancel ==
  /\ stopPc = "awaiting" => (stopSlot = 0 /\ ENABLED StopReturn)
  /\ \A s \in Slots :
       isStopped
         => /\ cycles[s].pc = "peeked" => ENABLED ProcessBatch(s)
            /\ (cycles[s].pc = "inflight" /\ ~MicrotaskPending)
                 => ENABLED TransportSuccess(s, AcceptAll(cycles[s].batch))
            /\ (cycles[s].pc = "backoff" /\ ~MicrotaskPending)
                 => ENABLED BackoffElapsed(s)
            /\ cycles[s].pc = "release" => ENABLED FlushFinally(s)
            /\ (cycles[s].pc = "release" /\ cycles[s].outcome = "success")
                 => (Range(cycles[s].batch) \ cycles[s].named) \cap Range(queue) = {}

C23_Witness ==
  \E s \in Slots :
    /\ stopPc = "returned"
    /\ cycles[s].pc = "release"
    /\ cycles[s].outcome = "success"
    /\ cycles[s].retried >= 1
    /\ size(queue) < stopN

\* C24. Error observer cardinality: with an observer installed, a cycle has
\* called it exactly once, with its terminal error and exactly the batch it
\* submitted, when it has ended in a terminal Transport failure, and not at
\* all otherwise (while it retries, after an empty peek, after a success
\* response, whatever that response rejects).
C24_ObserverCardinality ==
  \A s \in Slots :
    cycles[s].observed
      = IF onError /\ cycles[s].pc = "release" /\ cycles[s].outcome = "failed"
          THEN <<[error |-> cycles[s].lastError, events |-> cycles[s].sent[1].events]>>
          ELSE << >>

C24_Witness ==
  \E s \in Slots :
    /\ onError
    /\ cycles[s].pc = "release"
    /\ cycles[s].outcome = "failed"
    /\ cycles[s].retried = MaxRetries
    /\ Len(cycles[s].observed) = 1

\* C25. No Transport invocation after stop: once the stopped flag is set, no
\* cycle makes a Transport call any more.
C25_NoTransportAfterStop ==
  [][isStopped => \A s \in Slots : Len(cycles'[s].sent) <= Len(cycles[s].sent)]_vars

\* C25, amended.  No new flush cycle after stop: every cycle in progress was
\* started by a flush() call made while the batcher was not stopped, so the
\* timer, an explicit flush(), stop()'s own flush() and an add() that passed
\* its stopped check before stop() ran start nothing once the flag is set.
\* (A cycle started before still makes its Transport calls.)
C25_NoNewCycleAfterStop ==
  \A s \in Slots : cycles[s].pc # "idle" => ~cycles[s].afterStop

C25_Witness ==
  /\ isStopped
  /\ stopPc = "returned"
  /\ Active = {}
  /\ adds # << >>
  /\ adds[1].pc = "sized"
  /\ adds[1].size >= BatchSize

\* C26. Queue cleared on shutdown: once stop() has returned the queue is
\* empty.
C26_QueueClearedOnShutdown ==
  stopPc = "returned" => queue = << >>

\* C27. Batch composition: the batch of a cycle is the oldest
\* min(size, batchSize) events of the queue as peek saw it, in queue order;
\* every Transport call of the cycle carries exactly that batch; and no
\* Transport call is made for an empty batch.
C27_BatchComposition ==
  \A s \in Slots :
    cycles[s].pc # "idle"
      => /\ cycles[s].batch
              = SubSeq(cycles[s].peekedFrom, 1,
                       Min(size(cycles[s].peekedFrom), BatchSize))
         /\ Len(cycles[s].sent) = cycles[s].calls
         /\ \A k \in 1..Len(cycles[s].sent) :
              /\ cycles[s].sent[k].events = cycles[s].batch
              /\ cycles[s].sent[k].events # << >>
         /\ cycles[s].peekedFrom = << >> => cycles[s].pc \in {"peeked", "release"}

C27_Witness ==
  \E s \in Slots :
    /\ cycles[s].pc = "inflight"
    /\ Len(cycles[s].sent) >= 2
    /\ size(cycles[s].peekedFrom) > BatchSize
    /\ Len(cycles[s].batch) = BatchSize
    /\ queue # cycles[s].peekedFrom

\* C28. peek is pure: a peek(n) call returns the first min(n, size()) events
\* of the queue in queue order and leaves the queue as it was, so the same
\* call made again right away returns the same sequence.
C28_PeekPure ==
  [][lastPeek'.turn \notin {0, lastPeek.turn}
       => /\ lastPeek'.events
               = SubSeq(queue, 1, Min(lastPeek'.count, size(queue)))
          /\ queue' = queue
          /\ peek(queue', lastPeek'.count) = lastPeek'.events]_vars

C28_Witness ==
  /\ lastPeek.count \in 1..(size(queue) - 1)
  /\ lastPeek.events = SubSeq(queue, 1, lastPeek.count)
  /\ lastPeek.turn = 2

\* C29. remove by identifier: a remove(ids) call deletes every queued event
\* named in ids wherever it stands, keeps the others in their order, changes
\* nothing when no queued event is named, and leaves a queue on which the
\* same call changes nothing more.
C29_RemoveById ==
  [][lastRemove'.turn \notin {0, lastRemove.turn}
       => /\ Range(queue') = Range(queue) \ lastRemove'.ids
          /\ queue' = SelectSeq(queue, LAMBDA e : e \notin lastRemove'.ids)
          /\ (lastRemove'.ids \cap Range(queue) = {}) => queue' = queue
          /\ remove(queue', lastRemove'.ids) = queue']_vars

C29_Witness ==
  /\ Len(queue) >= 2
  /\ queue[1] + 1 < queue[2]
  /\ (queue[1] + 1) \in lastRemove.ids
  /\ lastRemove.ids \ (1..(nextId - 1)) # {}
  /\ lastRemove.turn = 2

C31_Transient ==
  (classified.error.code \in {"ECONNREFUSED", "ETIMEDOUT"})
    \/ (classified.error.name \in {"NetworkError", "TimeoutError"})
    \/ (classified.error.status \in ({429} \cup (500..599)))

\* C31. Error classification: isRetryableError says retryable exactly for a
\* value whose code is ECONNREFUSED or ETIMEDOUT, whose name is NetworkError
\* or TimeoutError, or whose status is 429 or lies in 500..599; every other
\* value, a 4xx other than 429 or one with no code, status or matching name
\* included, is not retryable.
C31_Classification ==
  classified.called =>
    /\ classified.retryable <=> C31_Transient
    /\ (/\ classified.error.status \in (400..499) \ {429}
        /\ classified.error.code \notin {"ECONNREFUSED", "ETIMEDOUT"}
        /\ classified.error.name \notin {"NetworkError", "TimeoutError"})
         => ~classified.retryable
    /\ classified.error = NoError => ~classified.retryable

C31_Witness ==
  /\ classified.called
  /\ classified.error.status = 404
  /\ classified.error.code = ""
  /\ classified.error.name = "Error"
  /\ ~classified.retryable

\* C32. onRetry ordering: in one withRetry run with an onRetry hook, the hook
\* has been called once for each backoff wait started, the k-th call with
\* attempt number k and the error of the k-th failed invocation; a run that
\* returned or threw made one call fewer than it made invocations, so none
\* after the final failure and none after a success.
C32_OnRetryOrder ==
  /\ retry.onRetry =>
       /\ Len(retry.retried) = Len(retry.waits)
       /\ \A k \in 1..Len(retry.retried) :
            /\ retry.retried[k].attempt = k
            /\ retry.retried[k].error = asError(retry.failures[k])
       /\ retry.pc \in {"calling", "returned", "thrown"}
            => Len(retry.retried) = retry.calls - 1
       /\ retry.pc = "waiting" => Len(retry.retried) = retry.calls
  /\ ~retry.onRetry => retry.retried = << >>

C32_Witness ==
  /\ retry.onRetry
  /\ retry.pc = "thrown"
  /\ retry.calls = 3
  /\ Len(retry.retried) = 2
  /\ retry.retried[1].error # retry.retried[2].error

\* C33. Defaults: on a constructed client the batcher runs with batch size
\* 100, flush interval 1000 ms, max retries 3 and retry delay 1000 ms for
\* each of these the config did not give, and with the given value,
\* unchanged, for each that was given and positive.
C33_Defaults ==
  facade.pc = "constructed" =>
    /\ ~facade.input.batchSize.given => facade.batcher.batchSize = 100
    /\ ~facade.input.flushInterval.given => facade.batcher.flushInterval = 1000
    /\ ~facade.input.maxRetries.given => facade.batcher.maxRetries = 3
    /\ ~facade.input.retryDelay.given => facade.batcher.retryDelay = 1000
    /\ \A t \in Tunables :
         (facade.input[t].given /\ facade.input[t].n > 0)
           => /\ facade.batcher[t] = facade.input[t].n
              /\ facade.config[t] = facade.input[t].n

C33_Witness ==
  /\ facade.pc = "constructed"
  /\ ~facade.input.batchSize.given
  /\ ~facade.input.flushInterval.given
  /\ facade.input.maxRetries = Given(2)
  /\ facade.input.retryDelay = Given(2)
  /\ facade.batcher = [batchSize |-> 100, flushInterval |-> 1000, maxRetries |-> 2,
                       retryDelay |-> 2, onError |-> TRUE]

\* C37. updateConfig does not reach the running pipeline: an updateConfig
\* call leaves the batcher's batchSize, flushInterval, maxRetries, retryDelay
\* and error observer as the constructor set them, whatever it changes; what
\* the client reads when called follows the update: the retry policy of
\* getScore and the throwOnError that recordEvent's catch block consults.
C37_UpdateConfigFrame ==
  [][(facade.pc = "constructed" /\ facade'.pc = "updated")
       => /\ facade'.batcher = facade.batcher
          /\ facade'.batcher.onError = ~orFalse(facade'.input.throwOnError)
          /\ facade'.updates.maxRetries.given
               => getScoreRetry(facade'.config).maxRetries
                    = facade'.updates.maxRetries.n
          /\ facade'.updates.retryDelay.given
               => getScoreRetry(facade'.config).retryDelay
                    = facade'.updates.retryDelay.n
          /\ facade'.updates.throwOnError.given
               => recordEventRethrows(facade'.config.throwOnError)
                    = facade'.updates.throwOnError.b
          /\ \A t \in Tunables :
               ~facade'.updates[t].given => facade'.config[t] = facade.config[t]]_vars

C37_Witness ==
  /\ facade.pc = "updated"
  /\ facade.updates.batchSize.given
  /\ facade.updates.throwOnError = GivenFlag(TRUE)
  /\ facade.config.batchSize # facade.batcher.batchSize
  /\ facade.config.maxRetries # facade.batcher.maxRetries
  /\ facade.config.throwOnError
  /\ facade.batcher.onError

\* C34. Reconcile touches only its own batch: the step in which a flush cycle
\* ends its Transport phase takes out of the queue only events of the batch
\* it peeked, keeps every other event, those added since the peek included,
\* in queue order, and does so whether or not a batch event has been evicted
\* in the meantime.
C34_ReconcileOwnBatch ==
  [][\A s \in Slots :
       Settles(s)
         => /\ Range(queue) \ Range(queue') \subseteq Range(cycles[s].batch)
            /\ queue' = SelectSeq(queue, LAMBDA e : e \in Range(queue'))
            /\ \A e \in Range(queue) \ Range(cycles[s].peekedFrom) :
                 e \in Range(queue')
            /\ cycles'[s].outcome = "success"
                 => Range(queue')
                      = Range(queue) \ (Range(cycles[s].batch) \ cycles'[s].named)]_vars

\* A success response named one batch event and accepted another; the named
\* one is gone all the same, evicted by the one push made since the peek,
\* and the pushed event is queued.
C34_Witness ==
  \E s \in Slots :
    /\ cycles[s].pc = "release"
    /\ cycles[s].outcome = "success"
    /\ Range(cycles[s].batch) \ cycles[s].named # {}
    /\ \E e \in cycles[s].named \cap Range(cycles[s].batch) : e \notin Range(queue)
    /\ Cardinality(Range(queue) \ Range(cycles[s].peekedFrom)) = 1
    /\ nextId = Len(cycles[s].peekedFrom) + 2

\* The events the next peek(batchSize) returns.
NextBatch(q) ==
  Range(SubSeq(q, 1, Min(size(q), BatchSize)))

\* C35. Rejected events keep their place: an event a success response names
\* stays queued and among the oldest batchSize events; no step moves a queued
\* event out of the oldest batchSize or changes the order of the events that
\* stay queued; and a cycle that starts takes all of the oldest batchSize
\* events as its batch.  So a rejected event is in the batch of every later
\* cycle, any number of times, for as long as it is queued.
C35_RejectedKeepPlace ==
  [][/\ \A s \in Slots :
          (Settles(s) /\ cycles'[s].outcome = "success")
            => \A e \in cycles'[s].named \cap Range(queue) :
                 e \in NextBatch(queue')
     /\ \A e \in NextBatch(queue) \cap Range(queue') : e \in NextBatch(queue')
     /\ SelectSeq(queue, LAMBDA e : e \in Range(queue'))
          = SelectSeq(queue', LAMBDA e : e \in Range(queue))
     /\ \A s \in Slots :
          (cycles[s].pc = "idle" /\ cycles'[s].pc = "peeked")
            => Range(cycles'[s].batch) = NextBatch(queue)]_vars

\* A cycle is sending an event older than one already delivered: the older
\* one was in that earlier batch too, and the response named it.
C35_Witness ==
  \E s \in Slots :
    /\ cycles[s].pc = "inflight"
    /\ ~allOk
    /\ \E e \in Range(cycles[s].batch) : \E d \in delivered : e < d

\* C36. stop is idempotent: a stop() call on a batcher that is already
\* stopped returns at the flush guard, so it starts no cycle and no Transport
\* call and its await settles without an error, and it leaves the stopped
\* flag set, the timer cancelled and the queue as it found them.
C36_StopIdempotent ==
  [][(isStopped /\ stopPc # "awaiting" /\ stopPc' = "awaiting")
       => /\ isStopped'
          /\ ~flushTimer /\ ~flushTimer'
          /\ queue' = queue
          /\ cycles' = cycles
          /\ isProcessing' = isProcessing
          /\ flushResult' = "blocked"
          /\ stopSlot' = 0]_vars

C36_Witness ==
  /\ restopped
  /\ stopPc = "awaiting"
  /\ isStopped
  /\ ~flushTimer
  /\ queue # << >>
  /\ Active = {}

====
